---- MODULE Spec2Model ----
(***************************************************************************)
(* Session completion detector of cc-sidecar (internal/session/tracker.go).*)
(*                                                                         *)
(* The Tracker keeps a map path -> trackedFile guarded by one mutex.       *)
(* Touch(path) is called by the watcher goroutine; Start() runs a ticker   *)
(* loop that calls check() (one sweep) on every tick until Stop() closes   *)
(* the done channel.  A sweep decides every entry under the mutex, then    *)
(* parses the queued transcripts and calls onComplete outside the mutex.   *)
(*                                                                         *)
(* Time is an integer clock.  The process table (the Liveness Oracle's     *)
(* input) and the transcript files (the parser's input) are environment    *)
(* state that changes on its own.                                          *)
(*                                                                         *)
(* The Transcript Parser (internal/session/transcript.go) is modelled on   *)
(* its own: ParseSpec runs parseTranscript line by line over a bounded     *)
(* transcript, NameSpec applies extractSessionIDFromPath to a file name.   *)
(* Go strings that are cut or compared character by character are          *)
(* sequences of one-character strings.                                     *)
(***************************************************************************)
EXTENDS Integers, Sequences, FiniteSets, TLC

\* ---------------------------------------------------------------- bounds
MaxTime == 5

\* most entries of /proc
MaxProcs == 2

\* longest transcript, in lines
MaxLines == 3

\* last clock value of the timed specification
MaxLatencyTime == 6

\* ------------------------------------------- configuration and constants
\* durations are scaled: one clock unit stands for several seconds
IdleThreshold == 2
PollInterval == 1
cleanupGrace == 2

Paths == {"a.jsonl", "b.jsonl"}

\* activation records of check(); Start() runs one at a time
FrameSeq == <<"check1", "check2">>
Frames == {FrameSeq[i] : i \in 1..Len(FrameSeq)}

\* answers of the Liveness Oracle and outcomes of parseTranscript
Answers == {"live", "gone"}
Outcomes == {"session", "nil"}

VARIABLES
    now,          \* time.Now()
    files,        \* Tracker.files: path -> trackedFile (tracked = key present)
    mu,           \* Tracker.mu: "free" or the check() activation holding it
    done,         \* Tracker.done is closed
    panicked,     \* the process has died of a runtime panic
    lpc,          \* position of the Start() goroutine
    tickPending,  \* a tick is buffered in ticker.C (capacity 1)
    nextTick,     \* time of the ticker's next tick
    fpc,          \* position of each check() activation
    fnow,         \* check(): local now
    todo,         \* check(): map keys the range loop has still to visit
    readyPaths,   \* check(): local readyPaths
    idx,          \* check(): index of the second loop
    \* history variables (not program state)
    marks,        \* path -> times marked reported since its last Touch
    cbSinceTouch, \* path -> onComplete calls since its last Touch
    parsesSinceTouch, \* path -> parseTranscript calls since its last Touch
    retouched,    \* path -> its last Touch found the entry reported
    pending,      \* path -> marked reported and parseTranscript not yet called
    oracleSaidGone, \* processCheck has returned false at least once
    sweepOracle,  \* activation -> path -> processCheck's answer in this sweep
    sweepParsed,  \* activation -> <<path, outcome>> of each parse of this sweep
    sweepCalls,   \* activation -> paths of the onComplete calls of this sweep
    stopPhase,    \* "process" if Stop() came during a parse/callback phase
    \* parseTranscript: its inputs, position and locals
    ppath,        \* argument path
    pfile,        \* the lines of the file at path
    popen,        \* os.Open(path) succeeds
    pstop,        \* number of the line at which scanner.Scan() fails, 0 = none
    ppc,          \* position in parseTranscript
    pline,        \* number of the next line the scanner delivers
    sessionID,
    workingDir,
    filesChanged, \* map[string]bool, as the set of its keys
    firstTS,
    lastTS,
    hasAssistantMsg,
    scanErr,      \* scanner.Err() != nil
    result,       \* the returned *CompletedSession
    pcall,        \* "first" call, or a second one on the "same" or "filtered" file
    firstResult,  \* history: what the first call returned
    \* extractSessionIDFromPath: argument, position, return value
    nameIn,
    npc,
    nameOut,
    nameStem,     \* history: the file name without directory and .jsonl
    \* a call of one of the other functions: argument, position, return value
    arg,
    cpc,
    ret

progVars == <<now, files, mu, done, panicked, lpc, tickPending, nextTick, fpc, fnow,
              todo, readyPaths, idx>>
histVars == <<marks, cbSinceTouch, parsesSinceTouch, retouched, pending,
              oracleSaidGone, sweepOracle, sweepParsed, sweepCalls, stopPhase>>
parseVars == <<ppath, pfile, popen, pstop, ppc, pline, sessionID, workingDir,
               filesChanged, firstTS, lastTS, hasAssistantMsg, scanErr, result,
               pcall, firstResult>>
nameVars == <<nameIn, npc, nameOut, nameStem>>
callVars == <<arg, cpc, ret>>
otherVars == <<parseVars, nameVars, callVars>>
trackerVars == <<progVars, histVars>>
vars == <<progVars, histVars, otherVars>>

\* ============================================================ transcript
\* ------------------------------------------------------- strings and time
EmptyString == <<>>

JsonlExt == <<".", "j", "s", "o", "n", "l">>

\* time.Time.IsZero: tick 0 is the zero Time
IsZeroTime(t) == t = 0

\* time.Duration.Milliseconds of a duration in clock ticks: the quotient is
\* truncated toward zero
TicksPerMs == 2
Milliseconds(d) ==
    IF d >= 0 THEN d \div TicksPerMs ELSE 0 - ((0 - d) \div TicksPerMs)

\* ------------------------------------------------------------ file names
\* filepath.Base: trailing separators dropped, then the last element
RECURSIVE StripSeparators(_)
StripSeparators(q) ==
    IF Len(q) > 0 /\ q[Len(q)] = "/"
       THEN StripSeparators(SubSeq(q, 1, Len(q) - 1))
       ELSE q

LastSeparator(q) ==
    LET at == {i \in 1..Len(q) : q[i] = "/"}
    IN  IF at = {} THEN 0 ELSE CHOOSE i \in at : \A j \in at : j <= i

Base(path) ==
    IF path = EmptyString THEN <<".">>
    ELSE LET t == StripSeparators(path)
             e == SubSeq(t, LastSeparator(t) + 1, Len(t))
         IN  IF e = EmptyString THEN <<"/">> ELSE e

\* strings.TrimSuffix
TrimSuffix(q, suffix) ==
    IF /\ Len(q) >= Len(suffix)
       /\ SubSeq(q, Len(q) - Len(suffix) + 1, Len(q)) = suffix
       THEN SubSeq(q, 1, Len(q) - Len(suffix))
       ELSE q

\* isUUIDLike: length and, by 0-based index, hyphens and hex digits
uuidLen == 36
HyphenAt == {8, 13, 18, 23}

\* variant: upper-case hex digits are not accepted
HexDigitLowerOnly(c) ==
    c \in {"0", "1", "2", "3", "4", "5", "6", "7", "8", "9",
           "a", "b", "c", "d", "e", "f"}

HexDigit(c) ==
    c \in {"0", "1", "2", "3", "4", "5", "6", "7", "8", "9",
           "a", "b", "c", "d", "e", "f", "A", "B", "C", "D", "E", "F"}

\* the loop of isUUIDLike from index i on
RECURSIVE UUIDLoop(_, _)
UUIDLoop(q, i) ==
    IF i >= Len(q) THEN TRUE
    ELSE IF i \in HyphenAt
            THEN IF q[i + 1] # "-" THEN FALSE ELSE UUIDLoop(q, i + 1)
            ELSE IF ~HexDigit(q[i + 1]) THEN FALSE ELSE UUIDLoop(q, i + 1)

isUUIDLike(q) == IF Len(q) # uuidLen THEN FALSE ELSE UUIDLoop(q, 0)

extractSessionIDFromPath(path) ==
    LET base == TrimSuffix(Base(path), JsonlExt)
    IN  IF Len(base) >= uuidLen
           THEN LET candidate == SubSeq(base, Len(base) - uuidLen + 1, Len(base))
                IN  IF isUUIDLike(candidate) THEN candidate ELSE base
           ELSE base

\* the file names extractSessionIDFromPath is applied to: a directory, a stem
\* and an extension; the stems are an identifier with one character replaced,
\* with and without a prefix, and short names
SampleUUID ==
    <<"c", "f", "a", "3", "3", "3", "5", "c", "-", "e", "a", "3", "8", "-", "4", "c", "f", "8">> \o
    <<"-", "a", "1", "f", "2", "-", "9", "e", "3", "c", "f", "9", "7", "8", "9", "7", "0", "8">>

UUIDVariants ==
    {[SampleUUID EXCEPT ![i] = c] : i \in 1..Len(SampleUUID), c \in {"-", "g", "A", "7"}}

NamePrefixes == {EmptyString, <<"x">>, <<"r", "u", "n", "-">>}

NameStems ==
    {pre \o v : pre \in NamePrefixes, v \in UUIDVariants}
       \cup {SubSeq(SampleUUID, 2, Len(SampleUUID)), <<"s", "h", "o", "r", "t">>, EmptyString}

NameDirs == {EmptyString, <<"/", "p", "/">>}

NameExts == {JsonlExt, <<".", "t", "x", "t">>, EmptyString}

\* ------------------------------------------------------- transcript lines
\* a line is empty, not decodable into jsonlLine ("bad"), or decoded ("json")
\* with the fields of jsonlLine; a timestamp is absent, not RFC 3339, or a
\* time; a message is absent, not decodable into messageContent, or an object
\* with a role and a content that is a list of blocks or anything else
NoTimestamp == [form |-> "none", t |-> 0]
BadTimestamp == [form |-> "bad", t |-> 0]
At(t) == [form |-> "ok", t |-> t]

NoBlocks == [kind |-> "other", blocks |-> <<>>]
Blocks(bs) == [kind |-> "blocks", blocks |-> bs]
NoMessage == [kind |-> "none", role |-> "", content |-> NoBlocks]
UndecodableMessage == [kind |-> "bad", role |-> "assistant", content |-> NoBlocks]
Message(role, content) == [kind |-> "obj", role |-> role, content |-> content]

ToolUse(name, path) ==
    [type |-> "tool_use", name |-> name, input |-> [kind |-> "ok", file_path |-> path]]
BadInputToolUse(name) ==
    [type |-> "tool_use", name |-> name, input |-> [kind |-> "bad", file_path |-> "/c"]]
TextBlock(name, path) ==
    [type |-> "text", name |-> name, input |-> [kind |-> "ok", file_path |-> path]]

JsonLine(type, sid, cwd, ts, msg) ==
    [kind |-> "json", type |-> type, sessionId |-> sid, cwd |-> cwd,
     timestamp |-> ts, message |-> msg]

S1 == <<"S", "1">>
S2 == <<"S", "2">>

EmptyLine ==
    [kind |-> "empty", type |-> "", sessionId |-> EmptyString, cwd |-> "",
     timestamp |-> NoTimestamp, message |-> NoMessage]

\* text that does not decode; what it seems to say must have no effect
GarbageLine ==
    [kind |-> "bad", type |-> "assistant", sessionId |-> <<"S", "3">>, cwd |-> "/bad",
     timestamp |-> At(1),
     message |-> Message("assistant", Blocks(<<ToolUse("Write", "/c")>>))]

SummaryLine == JsonLine("summary", S1, "/work", At(4), NoMessage)
UserLine == JsonLine("user", S2, "/other", At(9), Message("user", NoBlocks))
WriteLine ==
    JsonLine("assistant", EmptyString, "", At(7),
             Message("assistant", Blocks(<<ToolUse("Write", "/a")>>)))
EditLine ==
    JsonLine("assistant", S2, "", NoTimestamp,
             Message("assistant",
                     Blocks(<<ToolUse("Edit", "/a"), ToolUse("Read", "/c"),
                              ToolUse("Edit", "/b")>>)))
\* the line's type and its message's role differ
RoleOnlyLine ==
    JsonLine("user", EmptyString, "", NoTimestamp,
             Message("assistant", Blocks(<<ToolUse("Write", "/b")>>)))
TextLine ==
    JsonLine("assistant", EmptyString, "", BadTimestamp, Message("assistant", NoBlocks))
\* blocks that name no file, and the zero time as timestamp
OddLine ==
    JsonLine("system", EmptyString, "", At(0),
             Message("assistant",
                     Blocks(<<ToolUse("Write", ""), BadInputToolUse("Edit"),
                              TextBlock("Write", "/c")>>)))
BadMessageLine == JsonLine("user", EmptyString, "/late", NoTimestamp, UndecodableMessage)

Lines ==
    {EmptyLine, GarbageLine, SummaryLine, UserLine, WriteLine, EditLine,
     RoleOnlyLine, TextLine, OddLine, BadMessageLine}

Transcripts == UNION {[1..n -> Lines] : n \in 0..MaxLines}

ParsePaths ==
    {<<"/", "p", "/">> \o SampleUUID \o JsonlExt,
     <<"/", "p", "/", "s", "h", "o", "r", "t">> \o JsonlExt,
     <<"/", "p", "/">> \o JsonlExt}

\* --------------------------------------------------- parseTranscript steps
\* json.Unmarshal(line, &entry) succeeds
Decodes(line) == line.kind = "json"

\* variant: a later sessionId replaces an earlier one
TakeSessionIDLast(cur, entry) ==
    IF entry.sessionId # EmptyString THEN entry.sessionId ELSE cur

\* if entry.SessionID != "" && sessionID == ""
TakeSessionID(cur, entry) ==
    IF entry.sessionId # EmptyString /\ cur = EmptyString THEN entry.sessionId ELSE cur

\* if entry.CWD != "" && workingDir == ""
TakeWorkingDir(cur, entry) ==
    IF entry.cwd # "" /\ cur = "" THEN entry.cwd ELSE cur

\* time.Parse(time.RFC3339Nano, entry.Timestamp) succeeds
ParsesAsTime(ts) == ts.form = "ok"

TakeFirstTS(cur, entry) ==
    IF entry.timestamp.form # "none" /\ ParsesAsTime(entry.timestamp) /\ IsZeroTime(cur)
       THEN entry.timestamp.t
       ELSE cur

TakeLastTS(cur, entry) ==
    IF entry.timestamp.form # "none" /\ ParsesAsTime(entry.timestamp)
       THEN entry.timestamp.t
       ELSE cur

\* variant: an assistant line is one whose message has the assistant role
IsAssistantEntryByRole(entry) ==
    entry.message.kind = "obj" /\ entry.message.role = "assistant"

\* if entry.Type == "assistant"
IsAssistantEntry(entry) == entry.type = "assistant"

\* variant: only Write counts
WriteClassWriteOnly(name) == name = "Write"

\* block.Name is Write or Edit
WriteClass(name) == ~(name # "Write" /\ name # "Edit")

\* the loop of extractFileChanges over blocks from index k on
RECURSIVE BlockLoop(_, _, _)
BlockLoop(blocks, k, changed) ==
    IF k > Len(blocks) THEN changed
    ELSE LET block == blocks[k]
         IN  IF block.type # "tool_use" THEN BlockLoop(blocks, k + 1, changed)
             ELSE IF ~WriteClass(block.name) THEN BlockLoop(blocks, k + 1, changed)
             ELSE IF block.input.kind # "ok" THEN BlockLoop(blocks, k + 1, changed)
             ELSE IF block.input.file_path # ""
                     THEN BlockLoop(blocks, k + 1, changed \cup {block.input.file_path})
                     ELSE BlockLoop(blocks, k + 1, changed)

extractFileChanges(line, changed) ==
    IF line.message.kind = "bad" THEN changed
    ELSE IF line.message.role # "assistant" THEN changed
    ELSE IF line.message.content.kind # "blocks" THEN changed
    ELSE BlockLoop(line.message.content.blocks, 1, changed)

\* variant: a result is returned whatever the session id
NoSessionIDNever(sid) == FALSE

\* if sessionID == "" (after the file name fallback)
NoSessionID(sid) == sid = EmptyString

\* the file without its empty and non-decodable lines
KeptLine(line) == line.kind = "json"
Filtered(file) == SelectSeq(file, KeptLine)

\* where the scanner fails on the filtered file: after the same kept lines
FilteredStop(file, stop) ==
    IF stop = 0 THEN 0 ELSE Len(Filtered(SubSeq(file, 1, stop - 1))) + 1

\* durationMs
DurationOf(first, last) ==
    IF ~IsZeroTime(first) /\ ~IsZeroTime(last) THEN Milliseconds(last - first) ELSE 0

\* exitCode
ExitCodeOf(has) == IF ~has THEN 1 ELSE 0

\* the orders in which ranging over the map filesChanged can yield its keys
Orders(S) ==
    {q \in [1..Cardinality(S) -> S] : \A i, j \in 1..Cardinality(S) : i # j => q[i] # q[j]}

NilSession ==
    [nil |-> TRUE, sessionID |-> EmptyString, transcriptPath |-> EmptyString,
     filesChanged |-> <<>>, workingDir |-> "", durationMs |-> 0, exitCode |-> 0]

CompletedSession(sid, path, changed, dir, dur, code) ==
    [nil |-> FALSE, sessionID |-> sid, transcriptPath |-> path,
     filesChanged |-> changed, workingDir |-> dir, durationMs |-> dur, exitCode |-> code]

\* the locals of parseTranscript as declared
FreshLocals ==
    /\ pline = 1
    /\ sessionID = EmptyString
    /\ workingDir = ""
    /\ filesChanged = {}
    /\ firstTS = 0
    /\ lastTS = 0
    /\ hasAssistantMsg = FALSE
    /\ scanErr = FALSE
    /\ result = NilSession

\* no parse and no file name extraction is going on
ParserAtRest ==
    /\ ppath = EmptyString
    /\ pfile = <<>>
    /\ popen = FALSE
    /\ pstop = 0
    /\ ppc = "idle"
    /\ pcall = "first"
    /\ firstResult = NilSession
    /\ FreshLocals

NamesAtRest ==
    /\ nameIn = EmptyString
    /\ npc = "idle"
    /\ nameOut = EmptyString
    /\ nameStem = EmptyString

\* no other function is being called
CallsAtRest ==
    /\ arg = [kind |-> "none"]
    /\ cpc = "idle"
    /\ ret = "none"

\* =============================================================== tracker
\* ------------------------------------------------------------ trackedFile
NoFile ==
    [tracked |-> FALSE, path |-> "", lastWrite |-> 0, reported |-> FALSE, reportedAt |-> 0]

\* Touch, new entry: trackedFile{path, lastWrite: now}
NewTrackedFile(path, n) ==
    [tracked |-> TRUE, path |-> path, lastWrite |-> n, reported |-> FALSE, reportedAt |-> 0]

\* variant: Touch forgets to clear the reported flag
TouchExistingKeepsReported(tf, n) == [tf EXCEPT !.lastWrite = n]

\* Touch, existing entry: lastWrite = now, reported = false (reportedAt kept)
TouchExisting(tf, n) ==
    [tf EXCEPT !.lastWrite = n, !.reported = FALSE]

\* Touch: the if/else on the map lookup
TouchEntry(tf, path, n) ==
    IF tf.tracked THEN TouchExisting(tf, n) ELSE NewTrackedFile(path, n)

\* time.Time.IsZero: the clock starts at 1, 0 is the zero Time
IsZero(t) == t = 0

\* variant: the grace period must be exceeded, not reached
EvictableStrict(tf, n) ==
    tf.reported /\ tf.reportedAt # 0 /\ n - tf.reportedAt > cleanupGrace

\* variant: eviction looks at the age of reportedAt only
EvictableByAge(tf, n) ==
    tf.reportedAt # 0 /\ n - tf.reportedAt >= cleanupGrace

\* variant: an entry idle for IdleThreshold + cleanupGrace is evicted, reported or not
EvictableWhenStale(tf, n) ==
    \/ tf.reported /\ ~IsZero(tf.reportedAt) /\ n - tf.reportedAt >= cleanupGrace
    \/ n - tf.lastWrite >= IdleThreshold + cleanupGrace

\* check: tf.reported && !tf.reportedAt.IsZero() && now.Sub(tf.reportedAt) >= cleanupGrace
Evictable(tf, n) ==
    tf.reported /\ ~IsZero(tf.reportedAt) /\ n - tf.reportedAt >= cleanupGrace

\* variant: the idle test is off by one unit
StillActiveOffByOne(tf, n) == n - tf.lastWrite < IdleThreshold - 1

\* check: idle := now.Sub(tf.lastWrite); idle < t.idleThreshold
StillActive(tf, n) == n - tf.lastWrite < IdleThreshold

\* variant: t.processCheck(path) is called before the idle test
ConsultsOracleBeforeIdle(tf, n) ==
    ~Evictable(tf, n) /\ ~tf.reported

\* check: whether the chain of tests reaches the t.processCheck(path) call
ConsultsOracle(tf, n) ==
    ~Evictable(tf, n) /\ ~tf.reported /\ ~StillActive(tf, n)

\* variant: the "if tf.reported { continue }" test is missing
DecideNoReportedSkip(tf, n, alive) ==
    IF tf.reported /\ ~IsZero(tf.reportedAt) /\ n - tf.reportedAt >= cleanupGrace THEN "evict"
    ELSE IF n - tf.lastWrite < IdleThreshold THEN "skip"
    ELSE IF alive = "live" THEN "skip"
    ELSE "mark"

\* variant: the oracle's answer is read the wrong way round
DecideInvertedOracle(tf, n, alive) ==
    IF tf.reported /\ ~IsZero(tf.reportedAt) /\ n - tf.reportedAt >= cleanupGrace THEN "evict"
    ELSE IF tf.reported THEN "skip"
    ELSE IF n - tf.lastWrite < IdleThreshold THEN "skip"
    ELSE IF alive = "gone" THEN "skip"
    ELSE "mark"

\* variant: the oracle is not consulted
DecideIgnoreOracle(tf, n, alive) ==
    IF tf.reported /\ ~IsZero(tf.reportedAt) /\ n - tf.reportedAt >= cleanupGrace THEN "evict"
    ELSE IF tf.reported THEN "skip"
    ELSE IF n - tf.lastWrite < IdleThreshold THEN "skip"
    ELSE "mark"

\* check: the chain of tests applied to one entry, in the code's order;
\* alive is the answer of t.processCheck(path), used only when it is called
Decide(tf, n, alive) ==
    IF Evictable(tf, n) THEN "evict"
    ELSE IF tf.reported THEN "skip"
    ELSE IF StillActive(tf, n) THEN "skip"
    ELSE IF alive = "live" THEN "skip"
    ELSE "mark"

\* variant: the entry is flagged but reportedAt is not set
MarkReportedFlagOnly(tf, n) == [tf EXCEPT !.reported = TRUE]

\* check: tf.reported = true; tf.reportedAt = now
MarkReported(tf, n) == [tf EXCEPT !.reported = TRUE, !.reportedAt = n]

Bump(c) == IF c < 2 THEN c + 1 ELSE 2

NoneYet == [p \in Paths |-> "none"]

\* ------------------------------------------------------------------- Init
TrackerInit ==
    /\ now = 1
    /\ files = [p \in Paths |-> NoFile]
    /\ mu = "free"
    /\ done = FALSE
    /\ panicked = FALSE
    /\ lpc = "init"
    /\ tickPending = FALSE
    /\ nextTick = 0
    /\ fpc = [f \in Frames |-> "idle"]
    /\ fnow = [f \in Frames |-> 0]
    /\ todo = [f \in Frames |-> {}]
    /\ readyPaths = [f \in Frames |-> <<>>]
    /\ idx = [f \in Frames |-> 1]
    /\ marks = [p \in Paths |-> 0]
    /\ cbSinceTouch = [p \in Paths |-> 0]
    /\ parsesSinceTouch = [p \in Paths |-> 0]
    /\ retouched = [p \in Paths |-> FALSE]
    /\ pending = [p \in Paths |-> FALSE]
    /\ oracleSaidGone = FALSE
    /\ sweepOracle = [f \in Frames |-> NoneYet]
    /\ sweepParsed = [f \in Frames |-> <<>>]
    /\ sweepCalls = [f \in Frames |-> <<>>]
    /\ stopPhase = "none"

\* the tracker as constructed; nothing is being parsed
Init == TrackerInit /\ ParserAtRest /\ NamesAtRest /\ CallsAtRest

\* ------------------------------------------------------------ environment
\* the clock advances; the ticker buffers at most one tick and drops the rest
AdvanceTime ==
    /\ now < MaxTime
    /\ now' = now + 1
    /\ IF lpc \in {"select", "incheck"} /\ now + 1 >= nextTick
          THEN tickPending' = TRUE /\ nextTick' = nextTick + PollInterval
          ELSE UNCHANGED <<tickPending, nextTick>>
    /\ UNCHANGED <<otherVars, panicked, files, mu, done, lpc, fpc, fnow, todo, readyPaths, idx,
                   histVars>>

\* ------------------------------------------------------------------ Touch
\* Touch: t.mu.Lock(), the body, the deferred t.mu.Unlock()
Touch(p) ==
    /\ mu = "free"
    /\ files' = [files EXCEPT ![p] = TouchEntry(files[p], p, now)]
    /\ marks' = [marks EXCEPT ![p] = 0]
    /\ cbSinceTouch' = [cbSinceTouch EXCEPT ![p] = 0]
    /\ parsesSinceTouch' = [parsesSinceTouch EXCEPT ![p] = 0]
    /\ retouched' = [retouched EXCEPT ![p] = files[p].tracked /\ files[p].reported]
    /\ UNCHANGED <<otherVars, panicked, now, mu, done, lpc, tickPending, nextTick, fpc, fnow, todo,
                   readyPaths, idx, pending, oracleSaidGone, sweepOracle,
                   sweepParsed, sweepCalls, stopPhase>>

\* ------------------------------------------------------------ Start / Stop
\* the first activation record of check() that is not in use
FreeFrame ==
    FrameSeq[CHOOSE i \in 1..Len(FrameSeq) :
                /\ fpc[FrameSeq[i]] = "idle"
                /\ \A j \in 1..(i - 1) : fpc[FrameSeq[j]] # "idle"]

\* variant: the loop starts the sweep with "go t.check()" and selects again
DuringCheckGo == "select"

\* where the Start() goroutine is while check() runs: t.check() is a plain call
DuringCheck == "incheck"

\* what the sweep loop is doing, for the history of Stop()
LoopPhase ==
    IF lpc # "incheck" THEN lpc
    ELSE IF \E f \in Frames : fpc[f] \in {"lock", "scan"} THEN "scan"
    ELSE IF \E f \in Frames : fpc[f] \in {"parse", "callback"} THEN "process"
    ELSE "ret"

\* Start: ticker := time.NewTicker(t.pollInterval), then the select loop
LoopStart ==
    /\ lpc = "init"
    /\ lpc' = "select"
    /\ nextTick' = now + PollInterval
    /\ UNCHANGED <<otherVars, panicked, now, files, mu, done, tickPending, fpc, fnow, todo,
                   readyPaths, idx, histVars>>

\* Start: case <-ticker.C: t.check()
LoopTick ==
    /\ lpc = "select"
    /\ tickPending
    /\ \E f \in Frames : fpc[f] = "idle"
    /\ tickPending' = FALSE
    /\ lpc' = DuringCheck
    /\ fpc' = [fpc EXCEPT ![FreeFrame] = "lock"]
    /\ UNCHANGED <<otherVars, panicked, now, files, mu, done, nextTick, fnow, todo, readyPaths, idx,
                   histVars>>

\* variant: the select has no case for the done channel
DoneReadyNever == FALSE

\* Start: "case <-t.done" is ready once the channel is closed
DoneReady == done

\* Start: case <-t.done: return (with the deferred ticker.Stop())
LoopExit ==
    /\ lpc = "select"
    /\ DoneReady
    /\ lpc' = "exited"
    /\ tickPending' = FALSE
    /\ UNCHANGED <<otherVars, panicked, now, files, mu, done, nextTick, fpc, fnow, todo, readyPaths,
                   idx, histVars>>

\* variant: closing the closed channel is a no-op, as under a sync.Once
closeDoneOnce(closed) == [closed |-> TRUE, panic |-> FALSE]

\* close(t.done): the channel is closed; closing a closed channel panics
closeDone(closed) == [closed |-> TRUE, panic |-> closed]

\* Stop on the open channel: close(t.done); it takes no lock and waits for
\* nothing
Stop ==
    /\ ~done
    /\ done' = closeDone(done).closed
    /\ stopPhase' = IF LoopPhase = "process" THEN "process" ELSE "other"
    /\ UNCHANGED <<otherVars, panicked, now, files, mu, lpc, tickPending, nextTick, fpc, fnow, todo,
                   readyPaths, idx, marks, cbSinceTouch, parsesSinceTouch,
                   retouched, pending, oracleSaidGone, sweepOracle, sweepParsed,
                   sweepCalls>>

\* Stop on the closed channel: close(t.done) panics and the process dies
StopAgain ==
    /\ done
    /\ ~panicked
    /\ panicked' = closeDone(done).panic
    /\ UNCHANGED <<otherVars, now, files, mu, done, lpc, tickPending, nextTick, fpc, fnow,
                   todo, readyPaths, idx, histVars>>

\* ------------------------------------------------------------------ check
\* check: t.mu.Lock(); now := time.Now(); the range loop starts
SweepLock(f) ==
    /\ fpc[f] = "lock"
    /\ mu = "free"
    /\ mu' = f
    /\ fnow' = [fnow EXCEPT ![f] = now]
    /\ todo' = [todo EXCEPT ![f] = {p \in Paths : files[p].tracked}]
    /\ fpc' = [fpc EXCEPT ![f] = "scan"]
    /\ UNCHANGED <<otherVars, panicked, now, files, done, lpc, tickPending, nextTick, readyPaths,
                   idx, histVars>>

\* check: one iteration of "for path, tf := range t.files" (any order);
\* alive is what t.processCheck(path) answers if the iteration calls it
ScanEntry(f, p, alive) ==
    /\ fpc[f] = "scan"
    /\ p \in todo[f]
    /\ todo' = [todo EXCEPT ![f] = @ \ {p}]
    /\ LET tf == files[p]
           d  == Decide(tf, fnow[f], alive)
           asked == ConsultsOracle(tf, fnow[f])
       IN /\ files' = [files EXCEPT ![p] =
                          IF d = "evict" THEN NoFile
                          ELSE IF d = "mark" THEN MarkReported(tf, fnow[f])
                          ELSE tf]
          /\ readyPaths' = [readyPaths EXCEPT ![f] =
                          IF d = "mark" THEN Append(@, p) ELSE @]
          /\ sweepOracle' = [sweepOracle EXCEPT ![f][p] =
                          IF asked THEN alive ELSE @]
          /\ oracleSaidGone' = (oracleSaidGone \/ (asked /\ alive = "gone"))
          /\ marks' = [marks EXCEPT ![p] = IF d = "mark" THEN Bump(@) ELSE @]
          /\ pending' = [pending EXCEPT ![p] = IF d = "mark" THEN TRUE ELSE @]
    /\ UNCHANGED <<otherVars, panicked, now, mu, done, lpc, tickPending, nextTick, fpc, fnow, idx,
                   cbSinceTouch, parsesSinceTouch, retouched, sweepParsed,
                   sweepCalls, stopPhase>>

\* variant: the mutex is released by a deferred Unlock, not before the parsing
MuAfterScanDeferred(f) == f

\* check: the mutex after the range loop: t.mu.Unlock()
MuAfterScan(f) == "free"

\* check: the range loop is over; release the mutex, start the second loop
SweepUnlock(f) ==
    /\ fpc[f] = "scan"
    /\ todo[f] = {}
    /\ mu' = MuAfterScan(f)
    /\ fpc' = [fpc EXCEPT ![f] = IF readyPaths[f] = <<>> THEN "ret" ELSE "parse"]
    /\ UNCHANGED <<otherVars, panicked, now, files, done, lpc, tickPending, nextTick, fnow, todo,
                   readyPaths, idx, histVars>>

\* variant: the second loop gives up once the done channel is closed
NextPosAbortOnStop(f) ==
    IF done \/ idx[f] + 1 > Len(readyPaths[f]) THEN "ret" ELSE "parse"

\* check: position after readyPaths[idx] has been dealt with
NextPos(f) == IF idx[f] + 1 > Len(readyPaths[f]) THEN "ret" ELSE "parse"

\* variant: onComplete is called with whatever parseTranscript returned
CallsBackAlways(r) == TRUE

\* variant: once a parse of the sweep has failed, the sweep calls back no more
CallsBackUntilFailure(r) ==
    /\ r # "nil"
    /\ \A f \in Frames : \A i \in 1..Len(sweepParsed[f]) : sweepParsed[f][i][2] # "nil"

\* check: if completed != nil
CallsBack(r) == r # "nil"

\* check: completed := parseTranscript(path) returns r; if r != nil,
\* t.onComplete(completed) is called
ParseDone(f, r) ==
    /\ fpc[f] = "parse"
    /\ LET p == readyPaths[f][idx[f]]
       IN /\ sweepParsed' = [sweepParsed EXCEPT ![f] = Append(@, <<p, r>>)]
          /\ pending' = [pending EXCEPT ![p] = FALSE]
          /\ parsesSinceTouch' = [parsesSinceTouch EXCEPT ![p] = Bump(@)]
          /\ IF ~CallsBack(r)
                THEN /\ fpc' = [fpc EXCEPT ![f] = NextPos(f)]
                     /\ idx' = [idx EXCEPT ![f] = @ + 1]
                     /\ UNCHANGED <<cbSinceTouch, sweepCalls>>
                ELSE /\ fpc' = [fpc EXCEPT ![f] = "callback"]
                     /\ idx' = idx
                     /\ sweepCalls' = [sweepCalls EXCEPT ![f] = Append(@, p)]
                     /\ cbSinceTouch' = [cbSinceTouch EXCEPT ![p] = Bump(@)]
    /\ UNCHANGED <<otherVars, panicked, now, files, mu, done, lpc, tickPending, nextTick, fnow, todo,
                   readyPaths, marks, retouched, oracleSaidGone, sweepOracle,
                   stopPhase>>

\* check: t.onComplete(completed) returns
CallbackReturn(f) ==
    /\ fpc[f] = "callback"
    /\ fpc' = [fpc EXCEPT ![f] = NextPos(f)]
    /\ idx' = [idx EXCEPT ![f] = @ + 1]
    /\ UNCHANGED <<otherVars, panicked, now, files, mu, done, lpc, tickPending, nextTick, fnow, todo,
                   readyPaths, histVars>>

\* check returns to the select loop of Start; its locals are gone
CheckReturn(f) ==
    /\ fpc[f] = "ret"
    /\ fpc' = [fpc EXCEPT ![f] = "idle"]
    /\ lpc' = IF lpc = "incheck" THEN "select" ELSE lpc
    /\ fnow' = [fnow EXCEPT ![f] = 0]
    /\ readyPaths' = [readyPaths EXCEPT ![f] = <<>>]
    /\ idx' = [idx EXCEPT ![f] = 1]
    /\ sweepOracle' = [sweepOracle EXCEPT ![f] = NoneYet]
    /\ sweepParsed' = [sweepParsed EXCEPT ![f] = <<>>]
    /\ sweepCalls' = [sweepCalls EXCEPT ![f] = <<>>]
    /\ UNCHANGED <<otherVars, panicked, now, files, mu, done, tickPending, nextTick, todo, marks,
                   cbSinceTouch, parsesSinceTouch, retouched, pending,
                   oracleSaidGone, stopPhase>>

\* ------------------------------------------------------------------- Next
Next ==
    \/ AdvanceTime
    \/ \E p \in Paths : Touch(p)
    \/ LoopStart
    \/ LoopTick
    \/ LoopExit
    \/ Stop
    \/ \E f \in Frames : SweepLock(f)
    \/ \E f \in Frames, p \in Paths, alive \in Answers : ScanEntry(f, p, alive)
    \/ \E f \in Frames : SweepUnlock(f)
    \/ \E f \in Frames, r \in Outcomes : ParseDone(f, r)
    \/ \E f \in Frames : CallbackReturn(f)
    \/ \E f \in Frames : CheckReturn(f)

Spec == Init /\ [][Next]_vars

\* ------------------------------------------------------- timed behaviour
\* The sweep loop with durations: the steps of Start() and check() take no
\* time, except waiting in the select and the onComplete callback (registry
\* lookup and publish), which lasts as long as it likes.  Every oracle call
\* answers false and every transcript parses.
LoopBusy ==
    \/ lpc = "init"
    \/ lpc = "select" /\ (tickPending \/ done)
    \/ \E f \in Frames : fpc[f] \in {"lock", "scan", "parse", "ret"}

\* the clock advances while the loop waits or a callback runs
TimePasses ==
    /\ ~LoopBusy
    /\ now < MaxLatencyTime
    /\ now' = now + 1
    /\ IF lpc \in {"select", "incheck"} /\ now + 1 >= nextTick
          THEN tickPending' = TRUE /\ nextTick' = nextTick + PollInterval
          ELSE UNCHANGED <<tickPending, nextTick>>
    /\ UNCHANGED <<otherVars, panicked, files, mu, done, lpc, fpc, fnow, todo, readyPaths, idx,
                   histVars>>

LatencyNext ==
    \/ TimePasses
    \/ \E p \in Paths : Touch(p)
    \/ LoopStart
    \/ LoopTick
    \/ LoopExit
    \/ Stop
    \/ \E f \in Frames : SweepLock(f)
    \/ \E f \in Frames, p \in Paths : ScanEntry(f, p, "gone")
    \/ \E f \in Frames : SweepUnlock(f)
    \/ \E f \in Frames : ParseDone(f, "session")
    \/ \E f \in Frames : CallbackReturn(f)
    \/ \E f \in Frames : CheckReturn(f)

LatencySpec == Init /\ [][LatencyNext]_vars

\* ---------------------------------------------------- any number of Stops
\* The timed sweep loop with any oracle answers and parse results, Stop()
\* called any number of times; after a panic nothing runs.
StopNext ==
    \/ StopAgain
    \/ ~panicked /\ TimePasses
    \/ ~panicked /\ \E p \in Paths : Touch(p)
    \/ ~panicked /\ LoopStart
    \/ ~panicked /\ LoopTick
    \/ ~panicked /\ LoopExit
    \/ ~panicked /\ Stop
    \/ ~panicked /\ \E f \in Frames : SweepLock(f)
    \/ ~panicked /\ \E f \in Frames, p \in Paths, alive \in Answers : ScanEntry(f, p, alive)
    \/ ~panicked /\ \E f \in Frames : SweepUnlock(f)
    \/ ~panicked /\ \E f \in Frames, r \in Outcomes : ParseDone(f, r)
    \/ ~panicked /\ \E f \in Frames : CallbackReturn(f)
    \/ ~panicked /\ \E f \in Frames : CheckReturn(f)

StopSpec == Init /\ [][StopNext]_vars

TypeOK ==
    /\ now \in 1..MaxTime
    /\ mu \in {"free"} \cup Frames
    /\ lpc \in {"init", "select", "incheck", "exited"}
    /\ \A f \in Frames : fpc[f] \in {"idle", "lock", "scan", "parse", "callback", "ret"}
    /\ \A p \in Paths : files[p].tracked => files[p].lastWrite \in 1..MaxTime

\* -------------------------------------------------------------- fairness
\* Every goroutine keeps running and parseTranscript and onComplete return.
\* LoopExit is strongly fair: when a tick and the closed done channel are
\* both ready, Go's select picks one of them uniformly at random, so the done
\* case cannot lose for ever.  Touch, Stop and the clock are not forced.
FairSpec ==
    /\ Spec
    /\ WF_vars(LoopStart)
    /\ WF_vars(LoopTick)
    /\ SF_vars(LoopExit)
    /\ \A f \in Frames :
          /\ WF_vars(SweepLock(f))
          /\ WF_vars(\E p \in Paths, alive \in Answers : ScanEntry(f, p, alive))
          /\ WF_vars(SweepUnlock(f))
          /\ WF_vars(\E r \in Outcomes : ParseDone(f, r))
          /\ WF_vars(CallbackReturn(f))
          /\ WF_vars(CheckReturn(f))

\* ======================================================= parseTranscript
\* a call of parseTranscript on one path: the file, whether it opens and
\* where (if anywhere) the scanner fails are the inputs
ParseInit ==
    /\ TrackerInit
    /\ NamesAtRest
    /\ CallsAtRest
    /\ ppath \in ParsePaths
    /\ pfile \in Transcripts
    /\ popen \in BOOLEAN
    /\ pstop \in 0..Len(pfile)
    /\ (~popen => pstop = 0)
    /\ ppc = "open"
    /\ pcall = "first"
    /\ firstResult = NilSession
    /\ FreshLocals

\* os.Open
ParseOpen ==
    /\ ppc = "open"
    /\ IF ~popen
          THEN ppc' = "returned" /\ result' = NilSession
          ELSE ppc' = "scan" /\ UNCHANGED result
    /\ UNCHANGED <<ppath, pfile, popen, pstop, pline, sessionID, workingDir,
                   filesChanged, firstTS, lastTS, hasAssistantMsg, scanErr>>
    /\ UNCHANGED <<trackerVars, nameVars, callVars, pcall, firstResult>>

\* one iteration of for scanner.Scan() { ... }
ScanLine ==
    /\ ppc = "scan"
    /\ pline <= Len(pfile)
    /\ pline # pstop
    /\ LET line == pfile[pline]
       IN  IF line.kind = "empty" \/ ~Decodes(line)
              THEN UNCHANGED <<sessionID, workingDir, firstTS, lastTS,
                               hasAssistantMsg, filesChanged>>
              ELSE /\ sessionID' = TakeSessionID(sessionID, line)
                   /\ workingDir' = TakeWorkingDir(workingDir, line)
                   /\ firstTS' = TakeFirstTS(firstTS, line)
                   /\ lastTS' = TakeLastTS(lastTS, line)
                   /\ hasAssistantMsg' = (hasAssistantMsg \/ IsAssistantEntry(line))
                   /\ filesChanged' = extractFileChanges(line, filesChanged)
    /\ pline' = pline + 1
    /\ UNCHANGED <<ppath, pfile, popen, pstop, ppc, scanErr, result>>
    /\ UNCHANGED <<trackerVars, nameVars, callVars, pcall, firstResult>>

\* scanner.Scan() returns false: end of file, or an error (line too long,
\* read error) that scanner.Err() reports and the parser only logs
ScanStop ==
    /\ ppc = "scan"
    /\ pline > Len(pfile) \/ pline = pstop
    /\ scanErr' = (pline = pstop)
    /\ ppc' = "fallback"
    /\ UNCHANGED <<ppath, pfile, popen, pstop, pline, sessionID, workingDir,
                   filesChanged, firstTS, lastTS, hasAssistantMsg, result>>
    /\ UNCHANGED <<trackerVars, nameVars, callVars, pcall, firstResult>>

\* file name fallback, and the nil return when there is still no session id
ParseFallback ==
    /\ ppc = "fallback"
    /\ sessionID' = IF sessionID = EmptyString
                       THEN extractSessionIDFromPath(ppath)
                       ELSE sessionID
    /\ IF NoSessionID(sessionID')
          THEN ppc' = "returned" /\ result' = NilSession
          ELSE ppc' = "build" /\ UNCHANGED result
    /\ UNCHANGED <<ppath, pfile, popen, pstop, pline, workingDir, filesChanged,
                   firstTS, lastTS, hasAssistantMsg, scanErr>>
    /\ UNCHANGED <<trackerVars, nameVars, callVars, pcall, firstResult>>

\* files, durationMs, exitCode and the return of the CompletedSession
ParseReturn ==
    /\ ppc = "build"
    /\ \E order \in Orders(filesChanged) :
          result' = CompletedSession(sessionID, ppath, order, workingDir,
                                     DurationOf(firstTS, lastTS),
                                     ExitCodeOf(hasAssistantMsg))
    /\ ppc' = "returned"
    /\ UNCHANGED <<ppath, pfile, popen, pstop, pline, sessionID, workingDir,
                   filesChanged, firstTS, lastTS, hasAssistantMsg, scanErr>>
    /\ UNCHANGED <<trackerVars, nameVars, callVars, pcall, firstResult>>

\* a second call of parseTranscript after the first has returned: on the
\* unchanged file, or on the file without its empty and non-decodable lines
ParseAgain(mode) ==
    /\ ppc = "returned"
    /\ pcall = "first"
    /\ pcall' = mode
    /\ firstResult' = result
    /\ IF mode = "filtered"
          THEN pfile' = Filtered(pfile) /\ pstop' = FilteredStop(pfile, pstop)
          ELSE UNCHANGED <<pfile, pstop>>
    /\ ppc' = "open"
    /\ pline' = 1
    /\ sessionID' = EmptyString
    /\ workingDir' = ""
    /\ filesChanged' = {}
    /\ firstTS' = 0
    /\ lastTS' = 0
    /\ hasAssistantMsg' = FALSE
    /\ scanErr' = FALSE
    /\ result' = NilSession
    /\ UNCHANGED <<ppath, popen>>
    /\ UNCHANGED <<trackerVars, nameVars, callVars>>

ParseNext ==
    \/ ParseOpen
    \/ ScanLine
    \/ ScanStop
    \/ ParseFallback
    \/ ParseReturn
    \/ \E mode \in {"same", "filtered"} : ParseAgain(mode)

ParseSpec == ParseInit /\ [][ParseNext]_vars

\* ============================================== extractSessionIDFromPath
NameInit ==
    /\ TrackerInit
    /\ ParserAtRest
    /\ CallsAtRest
    /\ \E dir \in NameDirs, stem \in NameStems, ext \in NameExts :
          /\ ~(stem = EmptyString /\ ext = EmptyString)
          /\ nameIn = dir \o stem \o ext
          /\ nameStem = IF ext = JsonlExt THEN stem ELSE stem \o ext
    /\ npc = "call"
    /\ nameOut = EmptyString

ExtractName ==
    /\ npc = "call"
    /\ nameOut' = extractSessionIDFromPath(nameIn)
    /\ npc' = "returned"
    /\ UNCHANGED <<nameIn, nameStem>>
    /\ UNCHANGED <<trackerVars, parseVars, callVars>>

NameNext == ExtractName

NameSpec == NameInit /\ [][NameNext]_vars


\* ===================================================== Liveness Oracle
\* ------------------------------------------------- paths and directories
\* filepath.Dir: all but the last element, without trailing separators
Dir(path) ==
    LET i == LastSeparator(path)
        d == StripSeparators(SubSeq(path, 1, i))
    IN  IF i = 0 THEN <<".">>
        ELSE IF d = EmptyString THEN <<"/">> ELSE d

\* strings.ReplaceAll for one-character strings
ReplaceAll(q, old, new) == [i \in 1..Len(q) |-> IF q[i] = old THEN new ELSE q[i]]

\* strings.HasPrefix
HasPrefix(q, prefix) ==
    Len(q) >= Len(prefix) /\ SubSeq(q, 1, Len(prefix)) = prefix

ProjectsName == <<"p", "r", "o", "j", "e", "c", "t", "s">>
ClaudeName == <<"c", "l", "a", "u", "d", "e">>
ClaudePrefix == <<"c", "l", "a", "u", "d", "e", "-">>

\* the directories the file system may hold, each a directory, a file or absent
DirA == <<"/", "w", "/", "a">>
DirBC == <<"/", "w", "/", "b", "/", "c">>
FsNames == {DirA, DirBC}
FileSystems == [FsNames -> {"dir", "file", "none"}]

\* os.Stat
Stat(fs, name) == IF name \in DOMAIN fs THEN fs[name] ELSE "none"

\* variant: the decoded directory is not verified
StatIsDirAlways(fs, name) == TRUE

\* err == nil && info.IsDir()
StatIsDir(fs, name) == Stat(fs, name) = "dir"

projectDirFromTranscript(path, fs) ==
    LET dir == Dir(path)
        parent == Dir(dir)
        slug == Base(dir)
        candidate == ReplaceAll(slug, "-", "/")
    IN  IF Base(parent) # ProjectsName THEN EmptyString
        ELSE IF slug = EmptyString \/ slug = <<".">> THEN EmptyString
        ELSE IF ~StatIsDir(fs, candidate) THEN EmptyString
        ELSE candidate

\* -------------------------------------------------------- entries of /proc
\* an entry has a name, is a directory or not, and for a process directory a
\* command line (its NUL-separated parts) and a cwd link, each readable or
\* not; process and assistant record what the entry was built as
ProcEntry(name, isDir, cmdlineOK, cmdline, cwdOK, cwd, process, assistant) ==
    [name |-> name, isDir |-> isDir, cmdlineOK |-> cmdlineOK, cmdline |-> cmdline,
     cwdOK |-> cwdOK, cwd |-> cwd, process |-> process, assistant |-> assistant]

ProcCatalog ==
    << ProcEntry(<<"v", "e", "r", "s", "i", "o", "n">>, FALSE, TRUE, <<ClaudeName>>, TRUE, DirA, FALSE, FALSE),
       ProcEntry(<<"s", "y", "s">>, TRUE, TRUE, <<ClaudeName>>, TRUE, DirA, FALSE, FALSE),
       ProcEntry(<<"1", "0", "1">>, TRUE, TRUE, <<ClaudeName, EmptyString>>, TRUE, DirA, TRUE, TRUE),
       ProcEntry(<<"1", "0", "2">>, TRUE, TRUE, <<<<"n", "o", "d", "e">>, <<"/", "u", "/", "b", "i", "n", "/", "c", "l", "a", "u", "d", "e">>, EmptyString>>,
                 TRUE, DirBC, TRUE, TRUE),
       ProcEntry(<<"1", "0", "3">>, TRUE, TRUE, <<<<"/", "u", "/", "c", "l", "a", "u", "d", "e", "-", "c", "o", "d", "e">>, <<"-", "-", "x">>>>,
                 FALSE, DirA, TRUE, TRUE),
       ProcEntry(<<"1", "0", "4">>, TRUE, TRUE, <<<<"b", "a", "s", "h">>, EmptyString>>, TRUE, DirA, TRUE, FALSE),
       ProcEntry(<<"1", "0", "5">>, TRUE, TRUE, <<<<"c", "l", "a", "u", "d", "e", "x">>>>, TRUE, DirA, TRUE, FALSE),
       ProcEntry(<<"1", "0", "6">>, TRUE, FALSE, <<ClaudeName>>, TRUE, DirBC, TRUE, TRUE) >>

\* os.ReadDir returns the entries sorted by name: the chosen entries of the
\* catalog in its order
RECURSIVE Pick(_, _)
Pick(chosen, k) ==
    IF k > Len(ProcCatalog) THEN <<>>
    ELSE IF k \in chosen THEN <<ProcCatalog[k]>> \o Pick(chosen, k + 1)
    ELSE Pick(chosen, k + 1)

ProcTables ==
    {Pick(chosen, 1) : chosen \in {c \in SUBSET (1..Len(ProcCatalog)) : Cardinality(c) <= MaxProcs}}

Digits == {"0", "1", "2", "3", "4", "5", "6", "7", "8", "9"}

\* some part of the command line is claude or claude-...
IsClaudeCmdline(parts) ==
    \E k \in 1..Len(parts) :
        LET base == Base(parts[k])
        IN  base = ClaudeName \/ HasPrefix(base, ClaudePrefix)

\* the loop of isClaudeRunningForTranscript over the entries from index k on
RECURSIVE ProcLoop(_, _, _)
ProcLoop(entries, k, projectDir) ==
    IF k > Len(entries) THEN FALSE
    ELSE LET entry == entries[k]
         IN  IF ~entry.isDir THEN ProcLoop(entries, k + 1, projectDir)
             ELSE IF Len(entry.name) = 0 \/ entry.name[1] \notin Digits
                     THEN ProcLoop(entries, k + 1, projectDir)
             ELSE IF ~entry.cmdlineOK THEN ProcLoop(entries, k + 1, projectDir)
             ELSE IF ~IsClaudeCmdline(entry.cmdline)
                     THEN ProcLoop(entries, k + 1, projectDir)
             ELSE IF projectDir = EmptyString THEN TRUE
             ELSE IF ~entry.cwdOK THEN ProcLoop(entries, k + 1, projectDir)
             ELSE IF entry.cwd = projectDir THEN TRUE
             ELSE ProcLoop(entries, k + 1, projectDir)

isClaudeRunningForTranscript(transcriptPath, fs, procOK, entries) ==
    LET projectDir == projectDirFromTranscript(transcriptPath, fs)
    IN  IF ~procOK THEN FALSE ELSE ProcLoop(entries, 1, projectDir)

\* transcript paths, with the name of the grandparent directory and the
\* directory the slug stands for as they were put together
TranscriptAt(root, grand, slug, dir) ==
    [path |-> root \o <<"/">> \o grand \o <<"/">> \o slug \o <<"/">> \o <<"s", ".", "j", "s", "o", "n", "l">>,
     grand |-> grand, dir |-> dir]

OraclePaths ==
    {TranscriptAt(root, grand, sd[1], sd[2]) :
        root \in {<<"/", "r">>}, grand \in {ProjectsName, <<"o", "t", "h", "e", "r">>},
        sd \in {<<<<"-", "w", "-", "a">>, DirA>>, <<<<"-", "w", "-", "b", "-", "c">>, DirBC>>}}
      \cup {[path |-> <<"/">> \o ProjectsName \o <<"/">> \o <<"s", ".", "j", "s", "o", "n", "l">>,
             grand |-> <<"/">>, dir |-> EmptyString],
            [path |-> <<"s", ".", "j", "s", "o", "n", "l">>, grand |-> <<".">>, dir |-> EmptyString]}

OracleInit ==
    /\ TrackerInit
    /\ ParserAtRest
    /\ NamesAtRest
    /\ \E tp \in OraclePaths, fs \in FileSystems, ok \in BOOLEAN, procs \in ProcTables :
          arg = [kind |-> "oracle", path |-> tp.path, grand |-> tp.grand,
                 dir |-> tp.dir, fs |-> fs, procOK |-> ok, procs |-> procs]
    /\ cpc = "call"
    /\ ret = "none"

OracleCall ==
    /\ cpc = "call"
    /\ arg.kind = "oracle"
    /\ ret' = isClaudeRunningForTranscript(arg.path, arg.fs, arg.procOK, arg.procs)
    /\ cpc' = "returned"
    /\ UNCHANGED arg
    /\ UNCHANGED <<trackerVars, parseVars, nameVars>>

OracleNext == OracleCall

OracleSpec == OracleInit /\ [][OracleNext]_vars

\* ------------------------------------------------------ the project slug
\* pathToSlug: every "/" of the absolute path becomes "-"
pathToSlug(q) == ReplaceAll(q, "/", "-")

\* directory names, one of them with a "-" in it, and the absolute
\* directories of one or two of these names
SlugNames == {<<"w">>, <<"a">>, <<"b">>, <<"a", "-", "b">>}
SlugDirs ==
    {<<"/">> \o n : n \in SlugNames}
      \cup {<<"/">> \o n \o <<"/">> \o m : n \in SlugNames, m \in SlugNames}
SlugRoots == {<<"/", "r">>, <<"/", "h", "/", "r">>}

\* the directory d exists; every other directory of SlugDirs is in state other
SlugFs(d, other) == [n \in SlugDirs |-> IF n = d THEN "dir" ELSE other]

SlugInit ==
    /\ TrackerInit
    /\ ParserAtRest
    /\ NamesAtRest
    /\ \E d \in SlugDirs, root \in SlugRoots, other \in {"dir", "file", "none"} :
          arg = [kind |-> "slug", dir |-> d, fs |-> SlugFs(d, other),
                 path |-> TranscriptAt(root, ProjectsName, pathToSlug(d), d).path]
    /\ cpc = "call"
    /\ ret = "none"

DecodeSlug ==
    /\ cpc = "call"
    /\ arg.kind = "slug"
    /\ ret' = projectDirFromTranscript(arg.path, arg.fs)
    /\ cpc' = "returned"
    /\ UNCHANGED arg
    /\ UNCHANGED <<trackerVars, parseVars, nameVars>>

SlugNext == DecodeSlug

SlugSpec == SlugInit /\ [][SlugNext]_vars

\* ================================================================ watcher
\* strings.HasSuffix
HasSuffix(q, suffix) ==
    Len(q) >= Len(suffix) /\ SubSeq(q, Len(q) - Len(suffix) + 1, Len(q)) = suffix

\* fsnotify.Op is a bit set
Ops == {"Create", "Write", "Remove", "Rename", "Chmod"}

\* variant: every event on a transcript touches
WantedOpAny(op) == TRUE

\* event.Op&(fsnotify.Write|fsnotify.Create) != 0
WantedOp(op) == op \cap {"Write", "Create"} # {}

\* handleEvent: the calls it makes, to fw.Add and to tracker.Touch
handleEvent(event) ==
    IF /\ event.op \cap {"Create"} # {}
       /\ event.stat = "dir"
       THEN [watched |-> <<event.name>>, touched |-> <<>>]
    ELSE IF ~HasSuffix(event.name, JsonlExt)
       THEN [watched |-> <<>>, touched |-> <<>>]
    ELSE IF WantedOp(event.op)
       THEN [watched |-> <<>>, touched |-> <<event.name>>]
    ELSE [watched |-> <<>>, touched |-> <<>>]

\* events: a name put together from a stem and an extension, the operations,
\* and what os.Stat finds at the name
EventStems == {<<"/", "d", "/", "s">>, <<"/", "d", "/">>}
EventExts == {JsonlExt, <<".", "j", "s", "o", "n">>, <<".", "t", "x", "t">>, <<".", "j", "s", "o", "n", "l", ".", "b", "a", "k">>, <<".", "J", "S", "O", "N", "L">>, EmptyString}

WatchInit ==
    /\ TrackerInit
    /\ ParserAtRest
    /\ NamesAtRest
    /\ \E stem \in EventStems, ext \in EventExts, op \in SUBSET Ops,
          stat \in {"dir", "file", "none"} :
          arg = [kind |-> "event", name |-> stem \o ext, op |-> op, stat |-> stat,
                 ext |-> ext]
    /\ cpc = "call"
    /\ ret = "none"

HandleEvent ==
    /\ cpc = "call"
    /\ arg.kind = "event"
    /\ ret' = handleEvent(arg)
    /\ cpc' = "returned"
    /\ UNCHANGED arg
    /\ UNCHANGED <<trackerVars, parseVars, nameVars>>

WatchNext == HandleEvent

WatchSpec == WatchInit /\ [][WatchNext]_vars

\* ============================================================== publisher
subjectCompleted == "swarm.cc.session.completed"
subjectFailed == "swarm.cc.session.failed"

\* registry.Lookup: nil, or the TaskMapping stored for the session id
NoMapping == [found |-> FALSE, TaskID |-> "", OwnerUUID |-> ""]
Mappings ==
    {NoMapping} \cup
       {[found |-> TRUE, TaskID |-> t, OwnerUUID |-> o] :
           t \in {"", "task-123"}, o \in {"", "owner-456"}}

\* the sessions handed to the completion callback
PublishedSessions ==
    {CompletedSession(S1, <<"/", "p", "/", "s">> \o JsonlExt, changed, "/work", dur, code) :
        changed \in {<<>>, <<"/a">>}, dur \in {0, 3}, code \in {0, 1, 2}}

\* SessionData as publish fills it in; the time stamp is left out
SessionData(session, mapping) ==
    [SessionID |-> session.sessionID,
     TaskID |-> IF mapping.found THEN mapping.TaskID ELSE "",
     OwnerUUID |-> IF mapping.found THEN mapping.OwnerUUID ELSE "",
     AgentType |-> "claude-code",
     TranscriptPath |-> session.transcriptPath,
     FilesChanged |-> session.filesChanged,
     ExitCode |-> session.exitCode,
     DurationMs |-> session.durationMs,
     WorkingDir |-> session.workingDir]

\* the struct tags of SessionData: JSON key, field, and whether the tag says
\* omitempty
SessionDataTags ==
    {<<"session_id", "SessionID", FALSE>>,
     <<"task_id", "TaskID", FALSE>>,
     <<"owner_uuid", "OwnerUUID", FALSE>>,
     <<"agent_type", "AgentType", FALSE>>,
     <<"transcript_path", "TranscriptPath", FALSE>>,
     <<"files_changed", "FilesChanged", FALSE>>,
     <<"exit_code", "ExitCode", FALSE>>,
     <<"duration_ms", "DurationMs", FALSE>>,
     <<"working_dir", "WorkingDir", FALSE>>}

\* the empty values of encoding/json for the field types used
EmptyValue(field, v) ==
    IF field \in {"ExitCode", "DurationMs"} THEN v = 0
    ELSE IF field \in {"FilesChanged", "SessionID", "TranscriptPath"} THEN v = <<>>
    ELSE v = ""

\* json.Marshal of a SessionData: the object as a function from its keys
Marshal(data) ==
    LET kept == {tag \in SessionDataTags : ~(tag[3] /\ EmptyValue(tag[2], data[tag[2]]))}
    IN  [key \in {tag[1] : tag \in kept} |->
            LET tag == CHOOSE t \in kept : t[1] = key IN data[tag[2]]]

\* Publisher.publish: one nc.Publish of the marshalled event on the subject
publish(subject, session, mapping, publishOK) ==
    [attempts |-> <<[subject |-> subject, data |-> Marshal(SessionData(session, mapping))]>>,
     err |-> ~publishOK]

\* variant: a publish that failed is tried once more
onCompleteRetrying(session, mapping, publishOK) ==
    LET out == IF session.exitCode # 0
                  THEN publish(subjectFailed, session, mapping, publishOK)
                  ELSE publish(subjectCompleted, session, mapping, publishOK)
    IN  [attempts |-> IF out.err THEN out.attempts \o out.attempts ELSE out.attempts,
         logged |-> out.err]

\* the completion callback of main
onComplete(session, mapping, publishOK) ==
    LET out == IF session.exitCode # 0
                  THEN publish(subjectFailed, session, mapping, publishOK)
                  ELSE publish(subjectCompleted, session, mapping, publishOK)
    IN  [attempts |-> out.attempts, logged |-> out.err]

PublishInit ==
    /\ TrackerInit
    /\ ParserAtRest
    /\ NamesAtRest
    /\ \E session \in PublishedSessions, mapping \in Mappings, ok \in BOOLEAN :
          arg = [kind |-> "session", session |-> session, mapping |-> mapping,
                 publishOK |-> ok]
    /\ cpc = "call"
    /\ ret = "none"

OnComplete ==
    /\ cpc = "call"
    /\ arg.kind = "session"
    /\ ret' = onComplete(arg.session, arg.mapping, arg.publishOK)
    /\ cpc' = "returned"
    /\ UNCHANGED arg
    /\ UNCHANGED <<trackerVars, parseVars, nameVars>>

PublishNext == OnComplete

PublishSpec == PublishInit /\ [][PublishNext]_vars

\* ========================================================== configuration
\* durations in seconds
DefaultIdleThreshold == 10
DefaultPollInterval == 15

\* a value of the config file or of the environment: absent (or empty), not a
\* duration, or a duration
Absent == [form |-> "absent", d |-> 0]
NotADuration == [form |-> "bad", d |-> 0]
Duration(d) == [form |-> "ok", d |-> d]
ConfigValues == {Absent, NotADuration, Duration(0 - 5), Duration(0), Duration(20)}

\* what can be behind the -config flag: no path, an unreadable file, a file
\* that is not YAML, a YAML file with these two keys
ConfigFiles ==
    {[state |-> st, idle_threshold |-> Absent, poll_interval |-> Absent] :
        st \in {"nopath", "unreadable", "syntax"}}
      \cup {[state |-> "yaml", idle_threshold |-> i, poll_interval |-> q] :
               i \in ConfigValues, q \in ConfigValues}

\* yaml.Unmarshal into cfg: a key that decodes is stored, one that does not
\* leaves the field as it was
Decoded(cur, v) == IF v.form = "ok" THEN v.d ELSE cur

\* if v != "" { if d, err := time.ParseDuration(v); err == nil { ... } }
FromEnv(cur, v) == IF v.form # "absent" /\ v.form = "ok" THEN v.d ELSE cur

loadConfig(file, env) ==
    LET idle == IF file.state = "yaml"
                   THEN Decoded(DefaultIdleThreshold, file.idle_threshold)
                   ELSE DefaultIdleThreshold
        poll == IF file.state = "yaml"
                   THEN Decoded(DefaultPollInterval, file.poll_interval)
                   ELSE DefaultPollInterval
    IN  [IdleThreshold |-> FromEnv(idle, env), PollInterval |-> poll]

\* main: loadConfig, then NewTracker(cfg.IdleThreshold, cfg.PollInterval, ...)
\* and go tracker.Start()
mainNewTracker(file, env) ==
    LET cfg == loadConfig(file, env)
    IN  [started |-> TRUE, idleThreshold |-> cfg.IdleThreshold,
         pollInterval |-> cfg.PollInterval]

ConfigInit ==
    /\ TrackerInit
    /\ ParserAtRest
    /\ NamesAtRest
    /\ \E file \in ConfigFiles, env \in ConfigValues :
          arg = [kind |-> "config", file |-> file, env |-> env]
    /\ cpc = "call"
    /\ ret = "none"

MainStart ==
    /\ cpc = "call"
    /\ arg.kind = "config"
    /\ ret' = mainNewTracker(arg.file, arg.env)
    /\ cpc' = "returned"
    /\ UNCHANGED arg
    /\ UNCHANGED <<trackerVars, parseVars, nameVars>>

ConfigNext == MainStart

ConfigSpec == ConfigInit /\ [][ConfigNext]_vars

\* ------------------------------------------------------------- properties
Range(q) == {q[i] : i \in 1..Len(q)}

\* activation f has dealt with entry p in its range loop and still holds the mutex
Visited(f, p) == fpc[f] = "scan" /\ mu = f /\ p \notin todo[f]

\* the step is the iteration of activation f's range loop on entry p
VisitStep(f, p) == fpc[f] = "scan" /\ p \in todo[f] /\ p \notin todo'[f]

\* activation f is running parseTranscript or onComplete for path p
Executing(f, p) ==
    /\ fpc[f] \in {"parse", "callback"}
    /\ idx[f] <= Len(readyPaths[f])
    /\ readyPaths[f][idx[f]] = p

\* number of parses, and of onComplete calls, activation f has made for p
ParsesOf(f, p) ==
    Cardinality({i \in 1..Len(sweepParsed[f]) : sweepParsed[f][i][1] = p})

SessionsOf(f, p) ==
    Cardinality({i \in 1..Len(sweepParsed[f]) : sweepParsed[f][i] = <<p, "session">>})

CallsOf(f, p) ==
    Cardinality({i \in 1..Len(sweepCalls[f]) : sweepCalls[f][i] = p})

\* C1: without a Touch of the path in between, a path is marked reported
\* (queued) at most once, and the sweep that marked it parses it and calls
\* onComplete for it at most once
C1_OncePerEpisode ==
    \A p \in Paths :
        /\ marks[p] <= 1
        /\ \A f \in Frames : ParsesOf(f, p) <= 1 /\ CallsOf(f, p) <= 1

\* a later sweep has passed over an entry that was reported, with its
\* callback made, by an earlier sweep
C1_Witness ==
    \E f \in Frames, p \in Paths :
        /\ Visited(f, p)
        /\ files[p].tracked /\ files[p].reported
        /\ fnow[f] > files[p].reportedAt
        /\ marks[p] = 1 /\ cbSinceTouch[p] = 1

\* C2: a sweep that finds an entry unreported, idle for at least the
\* threshold and not live marks it reported in that iteration, and by the
\* time that sweep returns the path was parsed once and, if the parse gave a
\* session, onComplete was called exactly once for it
C2_MarkStep ==
    \A f \in Frames, p \in Paths :
        (/\ VisitStep(f, p)
         /\ files[p].tracked /\ ~files[p].reported
         /\ fnow[f] - files[p].lastWrite >= IdleThreshold
         /\ sweepOracle'[f][p] = "gone")
        => (/\ files'[p].reported
            /\ files'[p].reportedAt = fnow[f]
            /\ readyPaths'[f] = Append(readyPaths[f], p))

C2_SweepEnd ==
    \A f \in Frames : fpc[f] = "ret" =>
        \A p \in Range(readyPaths[f]) :
            /\ ParsesOf(f, p) = 1
            /\ CallsOf(f, p) = SessionsOf(f, p)

C2_CompletesInSameSweep == [][C2_MarkStep]_vars /\ [](C2_SweepEnd)

\* a sweep is returning after it marked a path and called back for it
C2_Witness ==
    \E f \in Frames, p \in Paths :
        /\ fpc[f] = "ret"
        /\ p \in Range(readyPaths[f])
        /\ sweepOracle[f][p] = "gone"
        /\ SessionsOf(f, p) = 1 /\ CallsOf(f, p) = 1
        /\ files[p].reported /\ files[p].reportedAt = fnow[f]

\* C3: an iteration that sees now - lastWrite < idleThreshold neither marks
\* the entry nor queues it; a path is queued only by an iteration that sees an
\* idle time of at least the threshold; Touch sets lastWrite to the current time
C3_Step ==
    /\ \A f \in Frames, p \in Paths :
          (/\ VisitStep(f, p)
           /\ files[p].tracked
           /\ fnow[f] - files[p].lastWrite < IdleThreshold)
          => (files'[p] = files[p] /\ readyPaths'[f] = readyPaths[f])
    /\ \A f \in Frames :
          (readyPaths'[f] # readyPaths[f] /\ readyPaths'[f] # <<>>)
          => \E p \in Paths :
                /\ readyPaths'[f] = Append(readyPaths[f], p)
                /\ VisitStep(f, p)
                /\ fnow[f] - files[p].lastWrite >= IdleThreshold
    /\ \A p \in Paths :
          (files'[p].tracked /\ files'[p].lastWrite # files[p].lastWrite)
          => files'[p].lastWrite = now

C3_NoCompletionBeforeThreshold == [][C3_Step]_vars

\* a sweep has passed over an entry that was touched again less than the
\* threshold ago, and left it unreported
C3_Witness ==
    \E f \in Frames, p \in Paths :
        /\ Visited(f, p)
        /\ files[p].tracked /\ ~files[p].reported
        /\ files[p].lastWrite > 1
        /\ fnow[f] > files[p].lastWrite
        /\ fnow[f] - files[p].lastWrite < IdleThreshold

\* C4: as long as the oracle has answered true every time it was asked, no
\* entry is reported, nothing is queued and onComplete is not running or done
C4_LiveBlocksCompletion ==
    ~oracleSaidGone =>
        /\ \A p \in Paths :
              ~files[p].reported /\ marks[p] = 0 /\ cbSinceTouch[p] = 0 /\ ~pending[p]
        /\ \A f \in Frames :
              readyPaths[f] = <<>> /\ fpc[f] \notin {"parse", "callback"}

\* the oracle said "live" for an entry idle for longer than the threshold
C4_Witness ==
    /\ ~oracleSaidGone
    /\ \E f \in Frames, p \in Paths :
          /\ Visited(f, p)
          /\ sweepOracle[f][p] = "live"
          /\ files[p].tracked
          /\ fnow[f] - files[p].lastWrite > IdleThreshold

\* C5: after a Touch of a reported entry, at most one onComplete call is
\* made for the path (until its next Touch)
C5_OneCompletionAfterRetouch ==
    \A p \in Paths : retouched[p] => cbSinceTouch[p] <= 1

\* C6: a tracked entry with reported = false has had no onComplete call for
\* its path since its most recent Touch
C6_UnreportedHasNoCompletion ==
    \A p \in Paths :
        (files[p].tracked /\ ~files[p].reported) => cbSinceTouch[p] = 0

\* C7: an activation of check() that is parsing or in onComplete does not
\* hold the mutex, and the mutex is free for a Touch to take
C7_ProcessingOutsideLock ==
    \A f \in Frames :
        fpc[f] \in {"parse", "callback"} =>
            (mu # f /\ \A p \in Paths : ENABLED Touch(p))

\* a Touch ran to completion while onComplete was still in progress
C7_Witness ==
    \E f \in Frames, p \in Paths :
        /\ fpc[f] = "callback"
        /\ files[p].tracked
        /\ files[p].lastWrite > fnow[f]

\* C8: no path has two parse+callback executions running at once, and no
\* sweep queues a path twice
C8_OneInFlightPerPath ==
    /\ \A p \in Paths : Cardinality({f \in Frames : Executing(f, p)}) <= 1
    /\ \A f \in Frames :
          Cardinality(Range(readyPaths[f])) = Len(readyPaths[f])

\* a tick is waiting and the entry's reported flag was cleared by a Touch
\* while the callback of that path is still running
C8_Witness ==
    \E f \in Frames, p \in Paths :
        /\ Executing(f, p)
        /\ fpc[f] = "callback"
        /\ tickPending
        /\ files[p].tracked /\ ~files[p].reported
        /\ now - files[p].lastWrite >= IdleThreshold

\* C9: Stop() can always be taken while the channel is open (it waits for
\* nothing), and once it was called the Start() loop eventually returns
C9_StopTerminatesLoop ==
    /\ [](~done => ENABLED Stop)
    /\ (done ~> lpc = "exited")

\* the loop has returned after a Stop() issued while a sweep was in progress
C9_Witness ==
    /\ lpc = "exited"
    /\ done
    /\ stopPhase = "process"

\* C10: when the loop has exited no marked path is left unparsed and no
\* activation of check() is cut short; the Stop() step itself changes nothing
\* of the sweep in progress
C10_Exited ==
    lpc = "exited" =>
        /\ \A p \in Paths : ~pending[p]
        /\ \A f \in Frames : fpc[f] = "idle"

C10_StopStep ==
    (done' # done) => UNCHANGED <<fpc, readyPaths, idx, files, mu>>

C10_StopLetsSweepFinish == [](C10_Exited) /\ [][C10_StopStep]_vars

\* the loop has returned after a Stop() issued during the parse/callback
\* phase, and both paths queued by that sweep got their callback
C10_Witness ==
    /\ lpc = "exited"
    /\ stopPhase = "process"
    /\ \A p \in Paths :
          /\ files[p].reported /\ ~pending[p]
          /\ marks[p] = 1 /\ cbSinceTouch[p] = 1
    /\ files["a.jsonl"].reportedAt = files["b.jsonl"].reportedAt

\* C11: an iteration of the sweep deletes the entry it visits if and only
\* if the entry is reported and now - reportedAt >= cleanupGrace (boundary
\* included); a deleted entry is not marked, not queued and the oracle is not
\* asked about it; entries are deleted by nothing else
C11_Step ==
    /\ \A f \in Frames, p \in Paths :
          (VisitStep(f, p) /\ files[p].tracked) =>
             /\ (~files'[p].tracked) <=>
                   (files[p].reported /\ fnow[f] - files[p].reportedAt >= cleanupGrace)
             /\ (~files'[p].tracked) =>
                   /\ readyPaths'[f] = readyPaths[f]
                   /\ sweepOracle'[f][p] = "none"
                   /\ marks'[p] = marks[p]
                   /\ pending'[p] = pending[p]
    /\ \A p \in Paths :
          (files[p].tracked /\ ~files'[p].tracked) =>
             \E f \in Frames : VisitStep(f, p)

C11_EvictionRule == [][C11_Step]_vars

\* one sweep has deleted an entry whose grace period was over and kept a
\* reported one whose grace period was not
C11_Witness ==
    \E f \in Frames, p \in Paths, q \in Paths :
        /\ Visited(f, p) /\ Visited(f, q)
        /\ ~files[p].tracked /\ marks[p] = 1
        /\ files[q].tracked /\ files[q].reported
        /\ fnow[f] - files[q].reportedAt < cleanupGrace

\* C12: an entry is deleted only when it is reported, was marked since its
\* last Touch and the grace period has passed since that marking; reportedAt
\* of a tracked entry changes only when a sweep marks the entry; an entry whose
\* reported flag a Touch has cleared is kept whatever its old reportedAt
C12_Step ==
    /\ \A f \in Frames, p \in Paths :
          (VisitStep(f, p) /\ files[p].tracked /\ ~files'[p].tracked) =>
             /\ files[p].reported
             /\ marks[p] >= 1
             /\ fnow[f] - files[p].reportedAt >= cleanupGrace
    /\ \A p \in Paths :
          (/\ files[p].tracked /\ files'[p].tracked
           /\ files'[p].reportedAt # files[p].reportedAt) =>
             \E f \in Frames :
                /\ VisitStep(f, p)
                /\ ~files[p].reported /\ files'[p].reported
                /\ files'[p].reportedAt = fnow[f]
    /\ \A f \in Frames, p \in Paths :
          (VisitStep(f, p) /\ files[p].tracked /\ ~files[p].reported) =>
             files'[p].tracked

ParseFailed(p) ==
    /\ marks[p] = 1 /\ ~pending[p]
    /\ parsesSinceTouch[p] >= 1 /\ cbSinceTouch[p] = 0

\* C13: a parse that returns nil leads to no onComplete call and leaves the
\* entry as it is (reported); an entry whose parse failed is deleted by the
\* first sweep that sees now - reportedAt >= cleanupGrace, like any other
C13_Step ==
    /\ \A f \in Frames :
          (/\ Len(sweepParsed'[f]) = Len(sweepParsed[f]) + 1
           /\ sweepParsed'[f][Len(sweepParsed'[f])][2] = "nil") =>
             /\ sweepCalls' = sweepCalls
             /\ cbSinceTouch' = cbSinceTouch
             /\ files' = files
             /\ fpc'[f] # "callback"
    /\ \A f \in Frames, p \in Paths :
          (VisitStep(f, p) /\ files[p].tracked /\ files[p].reported /\ ParseFailed(p)) =>
             ((~files'[p].tracked) <=> (fnow[f] - files[p].reportedAt >= cleanupGrace))

C13_ParseFailureStillEvicted == [][C13_Step]_vars

\* an entry whose parse failed has been deleted by a later sweep
C13_Witness ==
    \E f \in Frames, p \in Paths :
        /\ Visited(f, p)
        /\ ~files[p].tracked
        /\ ParseFailed(p)

\* C14: parseTranscript is called at most once for a path between two
\* consecutive Touches of it (or after its last Touch)
C14_OneParsePerEpisode ==
    \A p \in Paths : parsesSinceTouch[p] <= 1

\* C15: Touch(p) leaves p tracked with lastWrite = now and reported = false,
\* changes no other entry, removes none, and does nothing of a sweep: no
\* oracle call, no parse, no callback, no change to any check() activation
C15_Step ==
    \A p \in Paths :
        Touch(p) =>
            /\ files'[p].tracked
            /\ files'[p].lastWrite = now
            /\ ~files'[p].reported
            /\ \A q \in Paths \ {p} : files'[q] = files[q]
            /\ \A q \in Paths : files[q].tracked => files'[q].tracked
            /\ UNCHANGED <<sweepOracle, oracleSaidGone, sweepParsed, sweepCalls,
                           pending, fpc, todo, readyPaths, idx, mu>>

C15_TouchFrame == [][C15_Step]_vars

\* a reported entry has just been touched while the other path's entry,
\* reported too, stayed as it was
C15_Witness ==
    \E p \in Paths, q \in Paths :
        /\ p # q
        /\ files[p].tracked /\ ~files[p].reported
        /\ retouched[p] /\ files[p].lastWrite = now
        /\ files[p].reportedAt # 0 /\ files[p].reportedAt < now
        /\ files[q].tracked /\ files[q].reported

\* ------------------------------------------------- parser property helpers
\* number of the last line the scanner delivered
LastRead == IF pstop = 0 THEN Len(pfile) ELSE pstop - 1

\* the well-formed lines among the first n that carry a session id
SidLines(n) ==
    {i \in 1..n : pfile[i].kind = "json" /\ pfile[i].sessionId # EmptyString}

Least(I) == CHOOSE i \in I : \A j \in I : i <= j

Returned == ppc = "returned" /\ ~result.nil

\* C16: the session id is the first non-empty sessionId of the well-formed
\* lines in file order, during the scan and in the result; the id derived
\* from the file name is used only when no well-formed line carries one
C16_SessionIDIsFirst ==
    /\ (ppc \in {"scan", "fallback"}) =>
          sessionID = IF SidLines(pline - 1) = {}
                         THEN EmptyString
                         ELSE pfile[Least(SidLines(pline - 1))].sessionId
    /\ Returned =>
          result.sessionID = IF SidLines(LastRead) = {}
                                THEN extractSessionIDFromPath(ppath)
                                ELSE pfile[Least(SidLines(LastRead))].sessionId
    /\ (ppc = "returned" /\ popen /\ result.nil) => SidLines(LastRead) = {}

\* a result whose id is that of the second line although the third line
\* carries another id, the first carries none and the file name holds a UUID
C16_Witness ==
    /\ Returned
    /\ Len(pfile) = 3
    /\ pfile[1].kind = "json" /\ pfile[1].sessionId = EmptyString
    /\ pfile[2].sessionId = S1 /\ pfile[3].sessionId = S2
    /\ result.sessionID = S1
    /\ extractSessionIDFromPath(ppath) = SampleUUID

\* the canonical 8-4-4-4-12 identifier, by 1-based character position
CanonicalID(q) ==
    /\ Len(q) = 36
    /\ \A k \in 1..36 :
          IF k \in {9, 14, 19, 24}
             THEN q[k] = "-"
             ELSE q[k] \in {"0", "1", "2", "3", "4", "5", "6", "7", "8", "9",
                            "a", "b", "c", "d", "e", "f",
                            "A", "B", "C", "D", "E", "F"}

\* C17: extractSessionIDFromPath returns the trailing 36 characters of the
\* file name without directory and .jsonl when the name has at least 36
\* characters and those 36 are a canonical identifier (hex digits of either
\* case), and the whole name otherwise
C17_FilenameFallback ==
    (npc = "returned") =>
        LET n == Len(nameStem)
        IN  IF n >= 36 /\ CanonicalID(SubSeq(nameStem, n - 35, n))
               THEN nameOut = SubSeq(nameStem, n - 35, n)
               ELSE nameOut = nameStem

\* an identifier with an upper-case digit has been cut out of a longer name
C17_Witness ==
    /\ npc = "returned"
    /\ Len(nameStem) > 36
    /\ Len(nameOut) = 36
    /\ \E k \in 1..36 : nameOut[k] = "A"

\* the times of the parseable timestamps of the well-formed lines read
ParsedTimes ==
    {pfile[i].timestamp.t :
        i \in {j \in 1..LastRead : /\ pfile[j].kind = "json"
                                   /\ pfile[j].timestamp.form = "ok"}}

\* C18: durationMs is the largest parsed timestamp minus the smallest, in
\* milliseconds, whatever the order of the lines, 0 with fewer than two
\* distinct timestamps, and never negative
C18_DurationIsSpan ==
    Returned =>
        /\ result.durationMs >= 0
        /\ result.durationMs =
              IF Cardinality(ParsedTimes) < 2
                 THEN 0
                 ELSE LET hi == CHOOSE t \in ParsedTimes : \A u \in ParsedTimes : u <= t
                          lo == CHOOSE t \in ParsedTimes : \A u \in ParsedTimes : t <= u
                      IN  (hi - lo) \div TicksPerMs

\* C19: exitCode is 0 or 1, and 1 exactly when no well-formed line read has
\* type "assistant"
C19_ExitCode ==
    Returned =>
        /\ result.exitCode \in {0, 1}
        /\ (result.exitCode = 1) <=>
              ~ \E i \in 1..LastRead :
                    pfile[i].kind = "json" /\ pfile[i].type = "assistant"

\* exit code 1 for a transcript whose only mentions of an assistant are a
\* line that does not decode and a message role
C19_Witness ==
    /\ Returned
    /\ result.exitCode = 1
    /\ pstop = 0
    /\ \E i, j \in 1..Len(pfile) : pfile[i] = GarbageLine /\ pfile[j] = RoleOnlyLine

\* the file paths of the Write and Edit tool_use blocks of line i
WrittenBy(i) ==
    LET m == pfile[i].message
    IN  IF /\ pfile[i].kind = "json"
           /\ m.kind = "obj" /\ m.role = "assistant"
           /\ m.content.kind = "blocks"
           THEN {m.content.blocks[k].input.file_path :
                    k \in {n \in 1..Len(m.content.blocks) :
                              /\ m.content.blocks[n].type = "tool_use"
                              /\ m.content.blocks[n].name \in {"Write", "Edit"}
                              /\ m.content.blocks[n].input.kind = "ok"
                              /\ m.content.blocks[n].input.file_path # ""}}
           ELSE {}

\* C20: filesChanged lists every non-empty file_path of a Write or Edit
\* tool_use block of an assistant-role message of a well-formed line read,
\* nothing else, and each path once
C20_FilesChangedIsSet ==
    Returned =>
        /\ \A i, j \in 1..Len(result.filesChanged) :
              i # j => result.filesChanged[i] # result.filesChanged[j]
        /\ {result.filesChanged[i] : i \in 1..Len(result.filesChanged)}
              = UNION {WrittenBy(i) : i \in 1..LastRead}

\* /a is written by one line and edited by another and listed once
C20_Witness ==
    /\ Returned
    /\ \E i, j \in 1..Len(pfile) : pfile[i] = WriteLine /\ pfile[j] = EditLine
    /\ pstop = 0
    /\ Len(result.filesChanged) = 2

\* a second call has returned
ReturnedTwice(mode) == pcall = mode /\ ppc = "returned"

\* C21: two calls of parseTranscript on the same unchanged file return the
\* same value: nil both times, or results equal in every field, the sequence
\* filesChanged included
C21_ParseDeterministic ==
    ReturnedTwice("same") => result = firstResult

\* C22: parseTranscript returns nil exactly when the file cannot be opened or
\* neither a well-formed line read nor the file name yields a non-empty
\* session id; every result it returns has a non-empty sessionID
C22_NilResult ==
    (ppc = "returned") =>
        /\ result.nil <=>
              \/ ~popen
              \/ /\ SidLines(LastRead) = {}
                 /\ extractSessionIDFromPath(ppath) = EmptyString
        /\ ~result.nil => result.sessionID # EmptyString

\* an empty file whose name is no identifier gives a result named after the
\* file
C22_Witness ==
    /\ Returned
    /\ pcall = "first"
    /\ pfile = <<>>
    /\ result.sessionID = <<"s", "h", "o", "r", "t">>

\* C23: the result of parsing a file equals the result of parsing the file
\* without its empty and non-decodable lines
C23_MalformedLinesNoEffect ==
    ReturnedTwice("filtered") => result = firstResult

\* the entries of /proc that are seen as assistant processes
SeenAssistants ==
    {k \in 1..Len(arg.procs) :
        arg.procs[k].process /\ arg.procs[k].assistant /\ arg.procs[k].cmdlineOK}

\* C24: with /proc readable, when the grandparent directory of the transcript
\* is not named projects or the directory the slug stands for is no existing
\* directory, the oracle answers true exactly when some assistant process is
\* seen, whatever its working directory; otherwise it answers true only if
\* (and whenever) a seen assistant process has exactly that directory as cwd
C24_OracleFallback ==
    (cpc = "returned" /\ arg.kind = "oracle" /\ arg.procOK) =>
        IF arg.grand # ProjectsName \/ Stat(arg.fs, arg.dir) # "dir"
           THEN ret = (SeenAssistants # {})
           ELSE /\ ret => \E k \in SeenAssistants : arg.procs[k].cwd = arg.dir
                /\ (\E k \in SeenAssistants :
                       arg.procs[k].cwdOK /\ arg.procs[k].cwd = arg.dir) => ret

\* the slug's directory does not exist and the oracle says true for an
\* assistant process that runs elsewhere
C24_Witness ==
    /\ cpc = "returned" /\ arg.kind = "oracle"
    /\ arg.grand = ProjectsName
    /\ arg.dir = DirBC
    /\ Stat(arg.fs, arg.dir) = "none"
    /\ ret = TRUE
    /\ \A k \in 1..Len(arg.procs) : arg.procs[k].cwd = DirA

\* C25: handleEvent calls Touch at most once, with the event's name, and it
\* does so exactly when the name ends in .jsonl, the operations include Write
\* or Create, and the event is not the creation of a directory
C25_TouchOnTranscriptWrites ==
    (cpc = "returned" /\ arg.kind = "event") =>
        /\ Len(ret.touched) <= 1
        /\ (ret.touched # <<>>) => ret.touched = <<arg.name>>
        /\ (ret.touched # <<>>) <=>
              /\ arg.ext = JsonlExt
              /\ "Write" \in arg.op \/ "Create" \in arg.op
              /\ ~("Create" \in arg.op /\ arg.stat = "dir")

\* a Create event for a transcript file has touched once
C25_Witness ==
    /\ cpc = "returned" /\ arg.kind = "event"
    /\ arg.op = {"Create"}
    /\ arg.stat = "file"
    /\ ret.touched = <<arg.name>>

\* C26: the published payload has the key task_id exactly when TaskID is
\* non-empty and the key owner_uuid exactly when OwnerUUID is non-empty, each
\* with its value
C26_TaskKeysOmittedWhenEmpty ==
    (cpc = "returned" /\ arg.kind = "session") =>
        \A k \in 1..Len(ret.attempts) :
            LET data == ret.attempts[k].data
                task == IF arg.mapping.found THEN arg.mapping.TaskID ELSE ""
                owner == IF arg.mapping.found THEN arg.mapping.OwnerUUID ELSE ""
            IN  /\ ("task_id" \in DOMAIN data) <=> (task # "")
                /\ ("owner_uuid" \in DOMAIN data) <=> (owner # "")
                /\ ("task_id" \in DOMAIN data) => data["task_id"] = task
                /\ ("owner_uuid" \in DOMAIN data) => data["owner_uuid"] = owner

\* C27: whatever the defaults, the config file and the environment say, a
\* Tracker is created and started only with idleThreshold > 0 and
\* pollInterval > 0
C27_ConfigRejectsNonPositive ==
    (cpc = "returned" /\ arg.kind = "config" /\ ret.started) =>
        ret.idleThreshold > 0 /\ ret.pollInterval > 0

\* C28: once the done channel is closed no activation of check() is started:
\* the select of Start() takes the done case even when a tick is buffered
C28_Step ==
    done => \A f \in Frames : fpc[f] = "idle" => fpc'[f] = "idle"

C28_NoSweepAfterStop == [][C28_Step]_vars

\* the step is a call of t.processCheck(p) by activation f
OracleCallStep(f, p) ==
    sweepOracle'[f][p] # sweepOracle[f][p] /\ sweepOracle'[f][p] \in Answers

\* C29: the Liveness Oracle (process table and filesystem) is consulted only
\* while the mutex is free, so no Touch waits for its answer
C29_Step ==
    \A f \in Frames, p \in Paths :
        OracleCallStep(f, p) => (mu = "free" /\ \A q \in Paths : ENABLED Touch(q))

C29_OracleOutsideLock == [][C29_Step]_vars

\* C30: the oracle is asked about an entry only in the iteration of the range
\* loop on that entry, only when the entry is kept, unreported and
\* now - lastWrite >= IdleThreshold, and it is asked about every such entry;
\* no answer of the sweep is replaced and the loop visits no entry twice, so
\* it is asked at most once per entry per sweep
C30_Step ==
    \A f \in Frames :
        /\ \A p \in Paths :
              /\ OracleCallStep(f, p) =>
                    /\ VisitStep(f, p)
                    /\ sweepOracle[f][p] = "none"
                    /\ files[p].tracked /\ files'[p].tracked
                    /\ ~files[p].reported
                    /\ fnow[f] - files[p].lastWrite >= IdleThreshold
              /\ ( /\ VisitStep(f, p)
                   /\ files[p].tracked /\ ~files[p].reported
                   /\ fnow[f] - files[p].lastWrite >= IdleThreshold ) =>
                    OracleCallStep(f, p)
        /\ fpc[f] = "scan" => todo'[f] \subseteq todo[f]

C30_OracleLastAndOnce == [][C30_Step]_vars

\* one sweep has asked the oracle about an idle entry and has passed over an
\* unreported entry that was written less than IdleThreshold ago without asking
C30_Witness ==
    \E f \in Frames, p \in Paths, q \in Paths :
        /\ Visited(f, p) /\ Visited(f, q)
        /\ sweepOracle[f][p] \in Answers
        /\ sweepOracle[f][q] = "none"
        /\ files[q].tracked /\ ~files[q].reported
        /\ fnow[f] - files[q].lastWrite < IdleThreshold

\* paths activation f has parsed so far, in the order of the parses
ParsedPaths(f) == [i \in 1..Len(sweepParsed[f]) |-> sweepParsed[f][i][1]]

\* C31: a parse that fails ends nothing but its own iteration: the second
\* loop goes on with the next queued path, so the parses of a sweep are the
\* queue in order, every queued path is parsed by the time the sweep returns,
\* and every parse that gave a session got its callback, failures before it
\* or not
C31_Step ==
    \A f \in Frames :
        ( /\ Len(sweepParsed'[f]) = Len(sweepParsed[f]) + 1
          /\ sweepParsed'[f][Len(sweepParsed'[f])][2] = "nil" ) =>
            /\ readyPaths'[f] = readyPaths[f]
            /\ idx'[f] = idx[f] + 1
            /\ fpc'[f] = IF idx[f] < Len(readyPaths[f]) THEN "parse" ELSE "ret"

C31_Progress ==
    \A f \in Frames :
        /\ fpc[f] = "parse" => ParsedPaths(f) = SubSeq(readyPaths[f], 1, idx[f] - 1)
        /\ fpc[f] = "callback" => ParsedPaths(f) = SubSeq(readyPaths[f], 1, idx[f])
        /\ fpc[f] = "ret" => ParsedPaths(f) = readyPaths[f]
        /\ fpc[f] \in {"parse", "ret"} =>
              \A i \in 1..Len(sweepParsed[f]) :
                  sweepParsed[f][i][2] = "session" =>
                      CallsOf(f, sweepParsed[f][i][1]) = 1

C31_FailureDoesNotAbortSweep == [][C31_Step]_vars /\ [](C31_Progress)

\* a sweep queued two paths, the parse of the first failed, and the second
\* was parsed and got its callback before the sweep returned
C31_Witness ==
    \E f \in Frames, p \in Paths, q \in Paths :
        /\ fpc[f] = "ret"
        /\ readyPaths[f] = <<p, q>>
        /\ sweepParsed[f] = << <<p, "nil">>, <<q, "session">> >>
        /\ sweepCalls[f] = <<q>>

\* C32: for every existing absolute directory d, the transcript path built
\* with the slug of d decodes to d, also when names of d contain "-"
C32_SlugRoundTrip ==
    (cpc = "returned" /\ arg.kind = "slug") => ret = arg.dir

\* C33: a result that lists a changed file has exit code 0: the lines that
\* count as written by the assistant for filesChanged also count as assistant
\* messages for the exit code
C33_ChangesImplyExitZero ==
    Returned => (result.filesChanged # <<>> => result.exitCode = 0)

\* C34: while the loop runs, with the oracle answering false and transcripts
\* parseable, no tracked entry is still unreported more than
\* IdleThreshold + PollInterval after its last Touch, whatever the duration of
\* the callbacks of earlier sweeps
C34_DetectionLatency ==
    \A p \in Paths :
        (files[p].tracked /\ ~files[p].reported /\ ~done /\ lpc # "init") =>
            now - files[p].lastWrite <= IdleThreshold + PollInterval

\* C35: one call of the completion callback makes exactly one publish
\* attempt, on the failed subject when the exit code is not 0 and on the
\* completed subject when it is 0; an error of the publish is logged and
\* nothing else happens: no second attempt, no change of the tracker
C35_Returned ==
    (cpc = "returned" /\ arg.kind = "session") =>
        /\ Len(ret.attempts) = 1
        /\ ret.attempts[1].subject =
              (IF arg.session.exitCode = 0 THEN subjectCompleted ELSE subjectFailed)
        /\ ret.attempts[1].data["session_id"] = arg.session.sessionID
        /\ ret.logged = ~arg.publishOK

C35_Step ==
    (arg.kind = "session" /\ cpc = "call" /\ cpc' = "returned") =>
        UNCHANGED trackerVars

C35_OnePublishPerCallback == [](C35_Returned) /\ [][C35_Step]_vars

\* the callback for a session with exit code 2 has returned after its one
\* publish on the failed subject was refused
C35_Witness ==
    /\ cpc = "returned" /\ arg.kind = "session"
    /\ arg.session.exitCode = 2
    /\ ~arg.publishOK
    /\ ret.logged
    /\ Len(ret.attempts) = 1
    /\ ret.attempts[1].subject = subjectFailed

\* C36: every entry of the map is stored under its own path, and every
\* reported entry has a reportedAt that is not the zero time and is at least
\* IdleThreshold after its lastWrite
C36_EntryInvariant ==
    \A p \in Paths :
        files[p].tracked =>
            /\ files[p].path = p
            /\ files[p].reported =>
                  /\ ~IsZero(files[p].reportedAt)
                  /\ files[p].reportedAt >= files[p].lastWrite + IdleThreshold

\* one entry was reported later than IdleThreshold after its last write;
\* another was reported once, written again, and carries its old reportedAt,
\* older than its lastWrite, with the flag cleared
C36_Witness ==
    \E p \in Paths, q \in Paths :
        /\ files[p].tracked /\ files[p].reported
        /\ files[p].reportedAt > files[p].lastWrite + IdleThreshold
        /\ files[q].tracked /\ ~files[q].reported
        /\ ~IsZero(files[q].reportedAt)
        /\ files[q].reportedAt < files[q].lastWrite

\* C37: an entry leaves the map only in a step that finds it reported; an
\* iteration that visits an unreported entry keeps it, however long the entry
\* has been idle and however often the oracle has answered true for it
C37_Step ==
    /\ \A p \in Paths :
          (files[p].tracked /\ ~files'[p].tracked) => files[p].reported
    /\ \A f \in Frames, p \in Paths :
          (VisitStep(f, p) /\ files[p].tracked /\ ~files[p].reported) =>
             /\ files'[p].tracked
             /\ files'[p].lastWrite = files[p].lastWrite

C37_OnlyReportedRemoved == [][C37_Step]_vars

\* a sweep has kept an unreported entry that has been idle for the idle
\* threshold and the grace period together, the oracle answering true
C37_Witness ==
    \E f \in Frames, p \in Paths :
        /\ Visited(f, p)
        /\ sweepOracle[f][p] = "live"
        /\ files[p].tracked /\ ~files[p].reported
        /\ fnow[f] - files[p].lastWrite >= IdleThreshold + cleanupGrace

\* paths of the parses of activation f that gave a session, in parse order
SessionPaths(f) ==
    LET IsSession(x) == x[2] = "session"
        kept == SelectSeq(sweepParsed[f], IsSession)
    IN  [i \in 1..Len(kept) |-> kept[i][1]]

\* C38: at most one activation of check() exists and the Start() goroutine
\* is inside it; its range loop has dealt with every entry and released the
\* mutex before the first parse; callbacks are made in the order of the
\* parses, which is the order of the queue; and a sweep starts only from the
\* select, when no activation is left
C38_OneSweep ==
    /\ Cardinality({f \in Frames : fpc[f] # "idle"}) <= 1
    /\ \A f \in Frames :
          /\ fpc[f] # "idle" => lpc = "incheck"
          /\ fpc[f] \in {"parse", "callback", "ret"} => (todo[f] = {} /\ mu # f)
          /\ fpc[f] \in {"lock", "scan"} => (sweepParsed[f] = <<>> /\ sweepCalls[f] = <<>>)
          /\ sweepCalls[f] = SessionPaths(f)
          /\ \A i \in 1..Len(sweepParsed[f]) : sweepParsed[f][i][1] = readyPaths[f][i]

C38_Step ==
    \A f \in Frames :
        (fpc[f] = "idle" /\ fpc'[f] # "idle") =>
            /\ lpc = "select"
            /\ \A g \in Frames : fpc[g] = "idle"
            /\ \A g \in Frames : sweepParsed[g] = <<>> /\ readyPaths[g] = <<>>

C38_SweepsDoNotOverlap == [](C38_OneSweep) /\ [][C38_Step]_vars

\* a tick is waiting while the sweep makes its second callback, the first
\* having returned; no other activation exists
C38_Witness ==
    \E f \in Frames :
        /\ fpc[f] = "callback"
        /\ idx[f] = 2
        /\ Len(sweepCalls[f]) = 2
        /\ tickPending
        /\ \A g \in Frames \ {f} : fpc[g] = "idle"

\* C39: a call of Stop() on a tracker that was stopped before is not a no-op:
\* it panics, and that is the only way the process dies; before Start()
\* nothing runs, and a Start() that finds the done channel closed creates its
\* ticker and comes to the select with no tick pending, where it can only take
\* the done case and return: no sweep starts
C39_State ==
    /\ (done /\ ~panicked) => ENABLED (StopAgain /\ panicked')
    /\ ~done => ~panicked
    /\ lpc = "init" =>
          /\ ~tickPending
          /\ \A f \in Frames : fpc[f] = "idle"
          /\ \A p \in Paths : marks[p] = 0 /\ ~files[p].reported
    /\ (done /\ ~panicked /\ lpc = "select" /\ ~tickPending) =>
          (ENABLED LoopExit /\ ~ENABLED LoopTick /\ ~ENABLED TimePasses)

C39_Step ==
    /\ ~panicked
    /\ panicked' => (done /\ UNCHANGED <<done, lpc, fpc, files, mu>>)
    /\ (done /\ lpc = "init") =>
          (lpc' \in {"init", "select"} /\ ~tickPending' /\ fpc' = fpc)
    /\ (done /\ lpc = "select" /\ ~tickPending) =>
          (lpc' \in {"select", "exited"} /\ ~tickPending' /\ fpc' = fpc)

====
